---- MODULE Spec2Model ----
(***************************************************************************)
(* Model of PyButterflyVisualizer/main.py: the Black-Scholes call pricing  *)
(* function and the butterfly-spread evaluation that update_plot performs  *)
(* on every parameter change of the window.                                *)
(*                                                                         *)
(* Numbers.  The program computes in IEEE doubles.  The model computes in  *)
(* decimal fixed point and keeps the IEEE special values apart:            *)
(*   - money (S, K, x, prices, costs, P&L), ratios, d1, d2, sigma, r and   *)
(*     probabilities are integers counting 1/SCALE = 0.0001;               *)
(*   - time T is an integer counting 1/TSCALE = 0.000001 year;             *)
(*   - QDoubleSpinBox values are integers counting 0.01 (the widgets keep  *)
(*     two decimals), slider values are the integers themselves;           *)
(*   - a float that may be NaN or infinite is a record [k, v] with         *)
(*     k in {"num", "nan", "pinf", "ninf"}.                                *)
(* Binary rounding of doubles (errors of the order of 1e-16) is not        *)
(* modelled; log, sqrt, exp and norm.cdf are computed to about three       *)
(* significant digits.                                                     *)
(***************************************************************************)
EXTENDS Integers, Sequences, FiniteSets, TLC

SCALE == 10^4
TSCALE == 10^6

\* ------------------------------------------------------------------------
\* IEEE values
\* ------------------------------------------------------------------------
Num(n) == [k |-> "num", v |-> n]
NaN == [k |-> "nan", v |-> 0]
PInf == [k |-> "pinf", v |-> 0]
NInf == [k |-> "ninf", v |-> 0]

IsNum(a) == a.k = "num"
IsNaN(a) == a.k = "nan"

Max(a, b) == IF a >= b THEN a ELSE b
Abs(a) == IF a < 0 THEN -a ELSE a

\* floor(a * b / SCALE), the product of two fixed-point numbers; a may be
\* large, b is of the order of SCALE.
FMul(a, b) == (a \div SCALE) * b + ((a % SCALE) * b) \div SCALE

\* The n next decimal digits of r / b, for 0 <= r < b.
RECURSIVE Digits(_, _, _)
Digits(r, b, n) ==
    IF n = 0 THEN 0
    ELSE LET t == r * 10
         IN  (t \div b) * 10^(n - 1) + Digits(t % b, b, n - 1)

\* floor(a * SCALE / b) for b # 0: the quotient of two fixed-point numbers.
FDiv(a, b) ==
    LET p == IF b < 0 THEN -a ELSE a
        q == Abs(b)
    IN  (p \div q) * SCALE + Digits(p % q, q, 4)

\* floor(a * T / TSCALE): a fixed-point number times a time.
TMul(a, T) == (a * (T \div 1000) + (a * (T % 1000)) \div 1000) \div 1000

\* floor(sqrt(n)) by Newton's iteration.
RECURSIVE Newton(_, _)
Newton(n, x) ==
    LET y == (x + n \div x) \div 2
    IN  IF y >= x THEN x ELSE Newton(n, y)

ISqrt(n) == IF n = 0 THEN 0 ELSE Newton(n, n)

\* ln(m / SCALE) * SCALE for SCALE <= m < 2 * SCALE, by
\* ln m = 2 atanh((m - 1) / (m + 1)).
LnMantissa(m) ==
    LET z == FDiv(m - SCALE, m + SCALE)
        z2 == FMul(z, z)
        z4 == FMul(z2, z2)
        z6 == FMul(z4, z2)
    IN  2 * FMul(z, SCALE + z2 \div 3 + z4 \div 5 + z6 \div 7)

\* ln(v / SCALE) * SCALE for v > 0: v = m * 2^e, ln v = e ln 2 + ln m.
RECURSIVE Ln(_)
Ln(v) ==
    IF v >= 2 * SCALE THEN 6931 + Ln(v \div 2)
    ELSE IF v < SCALE THEN Ln(v * 2) - 6931
    ELSE LnMantissa(v)

\* exp(y / SCALE) * SCALE: halving down to |y| <= 1/2, then Taylor.
RECURSIVE Exp(_)
Exp(y) ==
    IF Abs(y) > SCALE \div 2
    THEN LET h == Exp(y \div 2) IN FMul(h, h)
    ELSE LET y2 == FMul(y, y)
             y3 == FMul(y2, y)
             y4 == FMul(y3, y)
         IN  SCALE + y + y2 \div 2 + y3 \div 6 + y4 \div 24

\* scipy.stats.norm.cdf at 0.00, 0.05, ..., 4.00, times SCALE.
CdfTable ==
    << 5000, 5199, 5398, 5596, 5793, 5987, 6179, 6368, 6554,
       6736, 6915, 7088, 7257, 7422, 7580, 7734, 7881, 8023,
       8159, 8289, 8413, 8531, 8643, 8749, 8849, 8944, 9032,
       9115, 9192, 9265, 9332, 9394, 9452, 9505, 9554, 9599,
       9641, 9678, 9713, 9744, 9772, 9798, 9821, 9842, 9861,
       9878, 9893, 9906, 9918, 9929, 9938, 9946, 9953, 9960,
       9965, 9970, 9974, 9978, 9981, 9984, 9987, 9989, 9990,
       9992, 9993, 9994, 9995, 9996, 9997, 9997, 9998, 9998,
       9998, 9999, 9999, 9999, 9999, 9999, 10000, 10000, 10000 >>

\* norm.cdf of a finite d >= 0: the table, interpolated linearly.
CdfPos(d) ==
    IF d >= 4 * SCALE THEN SCALE
    ELSE LET i == d \div 500
             f == d % 500
         IN  CdfTable[i + 1] + ((CdfTable[i + 2] - CdfTable[i + 1]) * f) \div 500

\* norm.cdf of an IEEE value.
cdf(d) ==
    CASE d.k = "nan" -> NaN
      [] d.k = "pinf" -> Num(SCALE)
      [] d.k = "ninf" -> Num(0)
      [] OTHER -> Num(IF d.v >= 0 THEN CdfPos(d.v) ELSE SCALE - CdfPos(-d.v))

\* ------------------------------------------------------------------------
\* numpy scalars and arrays
\* ------------------------------------------------------------------------
\* A Python float is [scalar |-> TRUE, a |-> <<v>>]; a numpy array is
\* [scalar |-> FALSE, a |-> <<v1, ..., vn>>].
Scalar(v) == [scalar |-> TRUE, a |-> <<v>>]
Array(s) == [scalar |-> FALSE, a |-> s]

\* Element i of X under numpy broadcasting.
At(X, i) == IF X.scalar THEN X.a[1] ELSE X.a[i]

\* S / K for one element.  Two Python floats divide by Python's rule, which
\* raises ZeroDivisionError on K = 0 (decided by the caller); a numpy array
\* divided by 0 gives inf, -inf or nan.
divide(s, K) ==
    IF K # 0 THEN Num(FDiv(s, K))
    ELSE IF s > 0 THEN PInf
    ELSE IF s < 0 THEN NInf
    ELSE NaN

\* np.log of an IEEE value.
log(a) ==
    CASE a.k = "nan" -> NaN
      [] a.k = "pinf" -> PInf
      [] a.k = "ninf" -> NaN
      [] OTHER -> IF a.v < 0 THEN NaN
                  ELSE IF a.v = 0 THEN NInf
                  ELSE Num(Ln(a.v))

\* np.sqrt of a time, as a fixed-point number: sqrt(T / TSCALE) * SCALE.
sqrt(T) == IF T < 0 THEN NaN ELSE Num(ISqrt(T * 100))

\* a + c for an IEEE value a and a finite c.
AddFinite(a, c) == IF IsNum(a) THEN Num(a.v + c) ELSE a

\* num / den of numpy values, den finite or nan.  sigma >= 0 makes a zero
\* denominator +0.0, sigma < 0 makes it -0.0.
npdivide(num, den, negZero) ==
    CASE IsNaN(num) \/ IsNaN(den) -> NaN
      [] den.v = 0 /\ num.k = "num" /\ num.v = 0 -> NaN
      [] den.v = 0 ->
            IF ((num.k = "pinf") \/ (num.k = "num" /\ num.v > 0)) # negZero
            THEN PInf ELSE NInf
      [] num.k = "pinf" -> IF den.v > 0 THEN PInf ELSE NInf
      [] num.k = "ninf" -> IF den.v > 0 THEN NInf ELSE PInf
      [] OTHER -> Num(FDiv(num.v, den.v))

\* d1 - den.
SubFinite(a, den) ==
    CASE IsNaN(a) \/ IsNaN(den) -> NaN
      [] IsNum(a) -> Num(a.v - den.v)
      [] OTHER -> a

\* The terms of lines 13-16 that depend on T alone, for one T:
\*   den = sigma * np.sqrt(T), drift = (r + 0.5 * sigma ** 2) * T,
\*   disc = np.exp(-r * T).
SigmaSqrt(sigma, sqrtT) == IF IsNaN(sqrtT) THEN NaN ELSE Num(FMul(sigma, sqrtT.v))

Terms(T, r, sigma) ==
    [den |-> SigmaSqrt(sigma, sqrt(T)),
     drift |-> TMul(r + FMul(sigma, sigma) \div 2, T),
     disc |-> Exp(-TMul(r, T)),
     negZero |-> sigma < 0]

\* Line 13 for one element.
d1(s, K, t) == npdivide(AddFinite(log(divide(s, K)), t.drift), t.den, t.negZero)

\* Line 14 for one element.
d2(d, t) == SubFinite(d, t.den)

\* Line 16 for one element, c1 = norm.cdf(d1) and c2 = norm.cdf(d2).
Combine(s, K, disc, c1, c2) ==
    IF IsNaN(c1) \/ IsNaN(c2) THEN NaN
    ELSE Num(FMul(s, c1.v) - FMul(FMul(K, disc), c2.v))

call_price(s, K, t, d) == Combine(s, K, t.disc, cdf(d), cdf(d2(d, t)))

\* Lines 13-16 for one element.
ClosedForm(s, K, t) == call_price(s, K, t, d1(s, K, t))

\* Lines 13-16 for a scalar T: its terms are computed once for all of S.
ClosedFormOver(S, K, t) == [i \in DOMAIN S.a |-> ClosedForm(S.a[i], K, t)]

ThresholdT == 10

\* black_scholes_call(S, K, T, r, sigma): S and T are scalars or arrays, K, r
\* and sigma scalars.  The result is [raise, scalar, a]: raise is TRUE when
\* the call ends in ZeroDivisionError, otherwise a holds the IEEE prices.
Raised == [raise |-> TRUE, scalar |-> TRUE, a |-> <<>>]
Returned(scalar, a) == [raise |-> FALSE, scalar |-> scalar, a |-> a]

\* IsExpired with the comparison T < 1e-5.
IsExpired_strict(T) == T.scalar /\ T.a[1] < ThresholdT

\* Lines 9-10: T is a scalar at or below the expiration threshold.
IsExpired(T) == T.scalar /\ T.a[1] <= ThresholdT

\* Intrinsic without the maximum: S - K.
Intrinsic_unclamped(S, K) == [i \in DOMAIN S.a |-> Num(S.a[i] - K)]

\* Line 11: np.maximum(S - K, 0).
Intrinsic(S, K) == [i \in DOMAIN S.a |-> Num(Max(S.a[i] - K, 0))]

black_scholes_call(S, K, T, r, sigma) ==
    IF IsExpired(T) THEN Returned(S.scalar, Intrinsic(S, K))
    ELSE IF S.scalar /\ K = 0 THEN Raised
    ELSE IF T.scalar
    THEN Returned(S.scalar, ClosedFormOver(S, K, Terms(T.a[1], r, sigma)))
    ELSE Returned(FALSE,
                  [i \in DOMAIN T.a |->
                      ClosedForm(At(S, i), K, Terms(T.a[i], r, sigma))])

\* ------------------------------------------------------------------------
\* The evaluation of update_plot
\* ------------------------------------------------------------------------
NumPoints == 300

\* a + b, a - b and 2 * a of values that are numbers or nan.
Add(a, b) == IF IsNaN(a) \/ IsNaN(b) THEN NaN ELSE Num(a.v + b.v)
Sub(a, b) == IF IsNaN(a) \/ IsNaN(b) THEN NaN ELSE Num(a.v - b.v)
Twice(a) == IF IsNaN(a) THEN NaN ELSE Num(2 * a.v)

\* v / unit rounded to the nearest integer, ties to even: what the format
\* specs .1f and .2f print of a number.
RoundHalfEven(v, unit) ==
    LET q == v \div unit
        rem == v % unit
    IN  IF 2 * rem < unit THEN q
        ELSE IF 2 * rem > unit THEN q + 1
        ELSE IF q % 2 = 0 THEN q ELSE q + 1

\* f"{K:.1f}" of a strike: the number of tenths printed.
Fmt1(K) == RoundHalfEven(K, SCALE \div 10)

\* f"{entry_cost:.2f}": the number of hundredths printed, or "nan".
Fmt2(c) == IF IsNaN(c) THEN NaN ELSE Num(RoundHalfEven(c.v, SCALE \div 100))

\* Strikes with the high strike two widths above the middle one.
Strikes_wide(K_mid, width) == <<K_mid - width, K_mid, K_mid + 2 * width>>

\* Lines 254-255: the three strikes <<K_low, K_mid, K_high>>.
Strikes(K_mid, width) == <<K_mid - width, K_mid, K_mid + width>>

\* Line 257: the strikes the info box shows.
InfoText(K) == <<Fmt1(K[1]), Fmt1(K[2]), Fmt1(K[3])>>

\* linspace with endpoint=False: the step is (stop - start) / num.
linspace_open(start, stop, num) ==
    [i \in 1..num |-> start + ((i - 1) * (stop - start)) \div num]

\* np.linspace(start, stop, num): num evenly spaced points, the last one stop.
linspace(start, stop, num) ==
    [i \in 1..num |-> start + ((i - 1) * (stop - start)) \div (num - 1)]

\* Line 263.
EntryCost(cost_low, cost_mid, cost_high) ==
    Sub(Add(cost_low, cost_high), Twice(cost_mid))

\* expiration_pnl with the middle leg sold once instead of twice.
expiration_pnl_once(x, K, entry_cost) ==
    [i \in DOMAIN x |->
        Sub(Num((Max(x[i] - K[1], 0) + Max(x[i] - K[3], 0))
                - Max(x[i] - K[2], 0)),
            entry_cost)]

\* Lines 271-275: the P&L at expiration over the points x.
expiration_pnl(x, K, entry_cost) ==
    [i \in DOMAIN x |->
        Sub(Num((Max(x[i] - K[1], 0) + Max(x[i] - K[3], 0))
                - 2 * Max(x[i] - K[2], 0)),
            entry_cost)]

\* Lines 280-281 on the three arrays of lines 277-279.
StrategyNow(val_low_cur, val_mid_cur, val_high_cur, entry_cost) ==
    [i \in DOMAIN val_low_cur |->
        Sub(EntryCost(val_low_cur[i], val_mid_cur[i], val_high_cur[i]),
            entry_cost)]

\* Lines 277-281: the P&L now over the points x.
current_pnl(x, K, T, r, sigma, entry_cost) ==
    StrategyNow(black_scholes_call(Array(x), K[1], T, r, sigma).a,
                black_scholes_call(Array(x), K[2], T, r, sigma).a,
                black_scholes_call(Array(x), K[3], T, r, sigma).a,
                entry_cost)

Unbound == [k |-> "unbound", v |-> 0]

\* Lines 266-288: the title, the sweep and the two curves.
Curves(S0, sigma, T, r, K, entry_cost, x) ==
    [outcome |-> "ok", info |-> InfoText(K), strikes |-> K,
     entry_cost |-> entry_cost, title |-> Fmt2(entry_cost), x |-> x,
     y_exp |-> expiration_pnl(x, K, entry_cost),
     y_cur |-> current_pnl(x, K, T, r, sigma, entry_cost),
     line_price |-> S0]

\* Lines 260-263 decide how the run ends: a ZeroDivisionError of one of the
\* three calls leaves update_plot at once.
Quote(S0, sigma, T, r, K, cost_low, cost_mid, cost_high) ==
    IF cost_low.raise \/ cost_mid.raise \/ cost_high.raise
    THEN [outcome |-> "ZeroDivisionError", info |-> InfoText(K), strikes |-> K,
          entry_cost |-> Unbound, title |-> Unbound, x |-> <<>>,
          y_exp |-> <<>>, y_cur |-> <<>>, line_price |-> 0]
    ELSE Curves(S0, sigma, T, r, K,
                EntryCost(cost_low.a[1], cost_mid.a[1], cost_high.a[1]),
                linspace((S0 * 8) \div 10, (S0 * 12) \div 10, NumPoints))

\* Lines 254-288 on the values S0, sigma, T, r, K_mid and width.
evaluate_butterfly(S0, sigma, T, r, K) ==
    Quote(S0, sigma, T, r, K,
          black_scholes_call(Scalar(S0), K[1], T, r, sigma),
          black_scholes_call(Scalar(S0), K[2], T, r, sigma),
          black_scholes_call(Scalar(S0), K[3], T, r, sigma))

\* Lines 247-288 on the widget values read at lines 247-253: what one run of
\* update_plot computes and hands to the widgets.  outcome is "ok", or
\* "ZeroDivisionError" when line 260 raises; then nothing after line 260 is
\* computed.
Evaluate(price, iv, days, rate, atm, width) ==
    evaluate_butterfly(price * 100, iv * 100, Scalar((days * TSCALE) \div 365),
                       rate, Strikes(atm * 100, width * 100))

\* ------------------------------------------------------------------------
\* The window
\* ------------------------------------------------------------------------
VARIABLES
    curve_exp,      \* [x, y]: the data of the expiration curve
    curve_curr,     \* [x, y]: the data of the current curve
    curve_zero,     \* [x, y]: the data of the zero curve
    spin_price,     \* QDoubleSpinBox, hundredths of a dollar
    slider_iv,      \* QSlider, percent
    slider_days,    \* QSlider, days
    spin_rate,      \* QDoubleSpinBox, hundredths of a percent
    spin_atm,       \* QDoubleSpinBox, hundredths
    spin_width,     \* QDoubleSpinBox, hundredths
    lbl_iv_val,     \* the number shown by the volatility label
    lbl_days_val,   \* the number shown by the days label
    info_box,       \* the three strikes shown, in tenths
    title,          \* the entry cost shown in the plot title, in hundredths
    line_price,     \* the position of the spot-price line
    strikes,        \* K_low, K_mid, K_high of the last run of update_plot
    entry_cost,     \* entry_cost of the last run of update_plot
    outcome,        \* how the last run of update_plot ended
    call,           \* the call of a function on its own, [fn, arguments]
    ret             \* its result

widgets == <<spin_price, slider_iv, slider_days, spin_rate, spin_atm, spin_width>>
labels == <<lbl_iv_val, lbl_days_val>>
plot == <<title, curve_exp, curve_curr, curve_zero, line_price>>
display == <<info_box, title, curve_exp, curve_curr, curve_zero, line_price>>
locals == <<strikes, entry_cost, outcome>>
test == <<call, ret>>
vars == <<widgets, labels, display, locals, test>>

\* The values the events of the model give the widgets, all inside the
\* ranges set at lines 70, 75, 79, 82, 98 and 101.
PriceValues == {10000, 100}
IvValues == {25, 100}
DaysValues == {30, 0}
RateValues == {400, 0}
AtmValues == {10000, 500}
WidthValues == {500, 5000}

\* Lines 240-244.
update_ui_labels ==
    /\ lbl_iv_val' = slider_iv'
    /\ lbl_days_val' = slider_days'

\* Lines 246-288, run on the widgets' new values.
update_plot ==
    \E e \in {Evaluate(spin_price', slider_iv', slider_days', spin_rate',
                       spin_atm', spin_width')} :
        /\ info_box' = e.info
        /\ strikes' = e.strikes
        /\ entry_cost' = e.entry_cost
        /\ outcome' = e.outcome
        /\ IF e.outcome = "ok"
           THEN /\ title' = e.title
                /\ curve_exp' = [x |-> e.x, y |-> e.y_exp]
                /\ curve_curr' = [x |-> e.x, y |-> e.y_cur]
                /\ curve_zero' = [x |-> e.x, y |-> [i \in DOMAIN e.x |-> 0]]
                /\ line_price' = e.line_price
           ELSE UNCHANGED plot

NoCall == [fn |-> "none"]
Pending == [done |-> FALSE, val |-> <<>>]
Done(v) == [done |-> TRUE, val |-> v]

\* The window after __init__ (lines 42-214): the widgets' initial values,
\* then update_ui_labels and update_plot.
InitWindow ==
    \E e \in {Evaluate(10000, 25, 30, 400, 10000, 500)} :
        /\ spin_price = 10000
        /\ slider_iv = 25
        /\ slider_days = 30
        /\ spin_rate = 400
        /\ spin_atm = 10000
        /\ spin_width = 500
        /\ lbl_iv_val = 25
        /\ lbl_days_val = 30
        /\ info_box = e.info
        /\ strikes = e.strikes
        /\ entry_cost = e.entry_cost
        /\ outcome = e.outcome
        /\ title = e.title
        /\ curve_exp = [x |-> e.x, y |-> e.y_exp]
        /\ curve_curr = [x |-> e.x, y |-> e.y_cur]
        /\ curve_zero = [x |-> e.x, y |-> [i \in DOMAIN e.x |-> 0]]
        /\ line_price = e.line_price

Init ==
    /\ InitWindow
    /\ call = NoCall
    /\ ret = Pending

\* spin_price.valueChanged (line 204).
PriceChanged ==
    \E v \in PriceValues :
        /\ v # spin_price
        /\ spin_price' = v
        /\ UNCHANGED <<slider_iv, slider_days, spin_rate, spin_atm, spin_width>>
        /\ UNCHANGED labels
        /\ update_plot
        /\ UNCHANGED test

\* slider_iv.valueChanged (lines 205-206).
IvChanged ==
    \E v \in IvValues :
        /\ v # slider_iv
        /\ slider_iv' = v
        /\ UNCHANGED <<spin_price, slider_days, spin_rate, spin_atm, spin_width>>
        /\ update_ui_labels
        /\ update_plot
        /\ UNCHANGED test

\* slider_days.valueChanged (lines 207-208).
DaysChanged ==
    \E v \in DaysValues :
        /\ v # slider_days
        /\ slider_days' = v
        /\ UNCHANGED <<spin_price, slider_iv, spin_rate, spin_atm, spin_width>>
        /\ update_ui_labels
        /\ update_plot
        /\ UNCHANGED test

\* spin_rate.valueChanged (line 209).
RateChanged ==
    \E v \in RateValues :
        /\ v # spin_rate
        /\ spin_rate' = v
        /\ UNCHANGED <<spin_price, slider_iv, slider_days, spin_atm, spin_width>>
        /\ UNCHANGED labels
        /\ update_plot
        /\ UNCHANGED test

\* spin_atm.valueChanged (line 210).
AtmChanged ==
    \E v \in AtmValues :
        /\ v # spin_atm
        /\ spin_atm' = v
        /\ UNCHANGED <<spin_price, slider_iv, slider_days, spin_rate, spin_width>>
        /\ UNCHANGED labels
        /\ update_plot
        /\ UNCHANGED test

\* spin_width.valueChanged (line 211).
WidthChanged ==
    \E v \in WidthValues :
        /\ v # spin_width
        /\ spin_width' = v
        /\ UNCHANGED <<spin_price, slider_iv, slider_days, spin_rate, spin_atm>>
        /\ UNCHANGED labels
        /\ update_plot
        /\ UNCHANGED test

Next ==
    \/ PriceChanged
    \/ IvChanged
    \/ DaysChanged
    \/ RateChanged
    \/ AtmChanged
    \/ WidthChanged

Spec == Init /\ [][Next]_vars

\* ------------------------------------------------------------------------
\* The functions on their own: one call on arguments drawn from bounded sets
\* ------------------------------------------------------------------------
ArrayLen == 3

\* An array of ArrayLen values around mid, step apart; mid is element 2.
Around(mid, step) == [i \in 1..ArrayLen |-> mid + (i - 2) * step]

\* An array of ArrayLen times: 0, then multiples of t.
Times(t) == [i \in 1..ArrayLen |-> (i - 1) * t]

SArgs ==
    {Scalar(900000), Scalar(1000000), Scalar(1100000),
     Array(Around(1000000, 100000))}
KArgs == {-450000, 0, 950000, 1000000, 1050000}
TArgs ==
    {Scalar(0), Scalar(5), Scalar(10), Scalar(11), Scalar(82191),
     Array(Times(82191))}
RArgs == {-500, 0, 400}
SigmaArgs == {2500, 10000}

BlackScholesCalls ==
    [fn : {"black_scholes_call"}, S : SArgs, K : KArgs, T : TArgs,
     r : RArgs, sigma : SigmaArgs]

\* The points lines 271-275 are given: sweeps of line 269 and arrays around
\* a strike.
XArgs ==
    {linspace(800000, 1200000, NumPoints), linspace(8000, 12000, NumPoints),
     Around(1000000, 50000), Around(10000, 5000)}

PnlCalls ==
    [fn : {"expiration_pnl"}, x : XArgs, K_mid : {10000, 800000, 1000000},
     width : {5000, 50000, 500000}, entry_cost : {-100, 0, 13443, 60000}]

\* Values of S0, sigma, T, K_mid and width, the invalid ones among them.
EvaluateCalls ==
    [fn : {"evaluate_butterfly"}, S0 : {-1000000, 0, 1000000},
     sigma : {0, 2500}, T : {-2740, 0, 82191}, r : {400},
     K_mid : {0, 1000000}, width : {-50000, 0, 50000}]

\* No window is constructed: the functions are called on their own.
NoWindow ==
    /\ spin_price = 0
    /\ slider_iv = 0
    /\ slider_days = 0
    /\ spin_rate = 0
    /\ spin_atm = 0
    /\ spin_width = 0
    /\ lbl_iv_val = 0
    /\ lbl_days_val = 0
    /\ info_box = <<>>
    /\ title = Unbound
    /\ curve_exp = [x |-> <<>>, y |-> <<>>]
    /\ curve_curr = [x |-> <<>>, y |-> <<>>]
    /\ curve_zero = [x |-> <<>>, y |-> <<>>]
    /\ line_price = 0
    /\ strikes = <<>>
    /\ entry_cost = Unbound
    /\ outcome = "none"

InitCall ==
    /\ NoWindow
    /\ \/ call \in BlackScholesCalls
       \/ call \in PnlCalls
       \/ call \in EvaluateCalls
    /\ ret = Pending

CallBlackScholes ==
    /\ call.fn = "black_scholes_call"
    /\ ~ret.done
    /\ ret' = Done(black_scholes_call(call.S, call.K, call.T, call.r, call.sigma))
    /\ UNCHANGED <<widgets, labels, display, locals, call>>

CallExpirationPnl ==
    /\ call.fn = "expiration_pnl"
    /\ ~ret.done
    /\ ret' = Done(expiration_pnl(call.x, Strikes(call.K_mid, call.width),
                                  Num(call.entry_cost)))
    /\ UNCHANGED <<widgets, labels, display, locals, call>>

CallEvaluate ==
    /\ call.fn = "evaluate_butterfly"
    /\ ~ret.done
    /\ ret' = Done(evaluate_butterfly(call.S0, call.sigma, Scalar(call.T), call.r,
                                      Strikes(call.K_mid, call.width)))
    /\ UNCHANGED <<widgets, labels, display, locals, call>>

NextCall ==
    \/ CallBlackScholes
    \/ CallExpirationPnl
    \/ CallEvaluate

SpecCall == InitCall /\ [][NextCall]_vars

\* ------------------------------------------------------------------------
\* Claims
\* ------------------------------------------------------------------------
IsBlackScholes == call.fn = "black_scholes_call" /\ ret.done
IsPnl == call.fn = "expiration_pnl" /\ ret.done
IsEvaluate == call.fn = "evaluate_butterfly" /\ ret.done

\* C1: when T is a scalar at or below the expiration threshold,
\* black_scholes_call returns max(S - K, 0) for every element of S, whatever
\* K, r and sigma are, and does not raise.
C1_ExpiredIsIntrinsic ==
    (IsBlackScholes /\ call.T.scalar /\ call.T.a[1] <= ThresholdT) =>
        /\ ~ret.val.raise
        /\ ret.val.scalar = call.S.scalar
        /\ DOMAIN ret.val.a = DOMAIN call.S.a
        /\ \A i \in DOMAIN call.S.a :
              ret.val.a[i] = Num(Max(call.S.a[i] - call.K, 0))

\* A call at the threshold itself, in the money, has returned S - K.
C1_Witness ==
    /\ IsBlackScholes
    /\ call.T = Scalar(ThresholdT)
    /\ call.S = Scalar(1000000)
    /\ call.K = 950000
    /\ call.r = -500
    /\ call.sigma = 10000
    /\ ret.val.a = <<Num(50000)>>

\* The P&L of the butterfly at expiration at the point p, before the entry
\* cost is subtracted.
RawAtExpiration(p, K) ==
    (Max(p - K[1], 0) + Max(p - K[3], 0)) - 2 * Max(p - K[2], 0)

WidgetStrikes ==
    <<(spin_atm - spin_width) * 100, spin_atm * 100, (spin_atm + spin_width) * 100>>

\* C2: with the days slider at 0 the run of update_plot ends normally, and at
\* every point x of the sweep the current P&L equals the expiration P&L,
\* max(x-K_low,0) + max(x-K_high,0) - 2*max(x-K_mid,0) - entry_cost.
C2_CurvesCoincideAtExpiry ==
    slider_days = 0 =>
        /\ outcome = "ok"
        /\ IsNum(entry_cost)
        /\ curve_curr.x = curve_exp.x
        /\ DOMAIN curve_curr.y = DOMAIN curve_exp.x
        /\ DOMAIN curve_exp.y = DOMAIN curve_exp.x
        /\ \A i \in DOMAIN curve_exp.x :
              /\ curve_exp.y[i] =
                    Num(RawAtExpiration(curve_exp.x[i], WidgetStrikes) - entry_cost.v)
              /\ curve_curr.y[i] = curve_exp.y[i]

\* The days slider is at 0 and the curves shown are not flat.
C2_Witness ==
    /\ slider_days = 0
    /\ spin_atm = 10000
    /\ spin_price = 10000
    /\ \E i \in DOMAIN curve_curr.y : curve_curr.y[i] # curve_curr.y[1]

InvalidParameters ==
    \/ call.width <= 0
    \/ call.sigma <= 0
    \/ call.S0 <= 0
    \/ call.K_mid <= 0
    \/ call.T < 0

ShowsWidgets ==
    /\ info_box = InfoText(WidgetStrikes)
    /\ title = Fmt2(entry_cost)
    /\ line_price = spin_price * 100
    /\ curve_exp.x = linspace(spin_price * 80, spin_price * 120, NumPoints)
    /\ curve_curr.x = curve_exp.x
    /\ curve_zero.x = curve_exp.x

\* C4: a run of update_plot either brings every output to the widgets' values
\* or, when it fails, leaves every output as it was.
C4_AllOrNothing ==
    [][IF outcome' = "ok" THEN ShowsWidgets' ELSE UNCHANGED display]_vars

\* C5: after every event the entry cost, the two curves and the spot-price
\* line shown are those of the evaluation of the widgets' values.
C5_ShowsCurrentEvaluation ==
    \E e \in {Evaluate(spin_price, slider_iv, slider_days, spin_rate,
                       spin_atm, spin_width)} :
        /\ e.outcome = "ok"
        /\ title = e.title
        /\ curve_exp = [x |-> e.x, y |-> e.y_exp]
        /\ curve_curr = [x |-> e.x, y |-> e.y_cur]
        /\ line_price = e.line_price

\* C6: the three strikes of every run of update_plot are strictly positive.
C6_StrikesPositive ==
    /\ strikes[1] > 0
    /\ strikes[2] > 0
    /\ strikes[3] > 0

\* C7: in every run of update_plot K_low < K_mid < K_high, and both wings are
\* as wide as the width widget says.
C7_StrikesOrdered ==
    /\ strikes[1] < strikes[2]
    /\ strikes[2] < strikes[3]
    /\ strikes[2] = spin_atm * 100
    /\ strikes[2] - strikes[1] = spin_width * 100
    /\ strikes[3] - strikes[2] = spin_width * 100

\* A run on the widest width below a small center strike.
C7_Witness ==
    /\ spin_atm = 500
    /\ spin_width = 5000
    /\ strikes = <<-450000, 50000, 550000>>

\* C8: for width > 0 the expiration P&L is at most width - entry_cost at
\* every point, and is width - entry_cost at a point x = K_mid.
C8_PeakAtCenter ==
    (IsPnl /\ call.width > 0) =>
        \A i \in DOMAIN call.x :
            /\ IsNum(ret.val[i])
            /\ ret.val[i].v <= call.width - call.entry_cost
            /\ call.x[i] = call.K_mid =>
                  ret.val[i].v = call.width - call.entry_cost

\* The points hold K_mid, where the P&L is width - entry_cost, and a point
\* where it is less.
C8_Witness ==
    /\ IsPnl
    /\ \E i \in DOMAIN call.x :
          /\ call.x[i] = call.K_mid
          /\ ret.val[i].v = call.width - call.entry_cost
    /\ \E j \in DOMAIN call.x : ret.val[j].v < call.width - call.entry_cost

\* C9: the sweep shown has at least 2 points, is strictly increasing, starts
\* at 0.8 and ends at 1.2 times the spot price it was computed for (the
\* widget's value when the run ended normally), and both P&L sequences have
\* one value per point of it.
C9_SweepDomain ==
    /\ Len(curve_exp.x) >= 2
    /\ \A i \in 1..(Len(curve_exp.x) - 1) : curve_exp.x[i] < curve_exp.x[i + 1]
    /\ curve_exp.x[1] = (line_price * 8) \div 10
    /\ curve_exp.x[Len(curve_exp.x)] = (line_price * 12) \div 10
    /\ outcome = "ok" => line_price = spin_price * 100
    /\ curve_curr.x = curve_exp.x
    /\ DOMAIN curve_exp.y = DOMAIN curve_exp.x
    /\ DOMAIN curve_curr.y = DOMAIN curve_exp.x

\* The sweep of the smallest spot price, 1.00: from 0.80 to 1.20.
C9_Witness ==
    /\ outcome = "ok"
    /\ spin_price = 100
    /\ curve_exp.x[1] = 8000
    /\ curve_exp.x[NumPoints] = 12000

ValidInputs ==
    /\ \A i \in DOMAIN call.S.a : call.S.a[i] > 0
    /\ call.K > 0
    /\ call.sigma > 0
    /\ \A i \in DOMAIN call.T.a : call.T.a[i] >= 0

\* What the fixed-point arithmetic of the model may be off by: 0.05.
Eps == SCALE \div 20

\* C10: for S > 0, K > 0, sigma > 0 and T >= 0 every price returned by
\* black_scholes_call is a number with 0 <= price <= S (here: up to Eps).
C10_NoArbitrage ==
    (IsBlackScholes /\ ValidInputs) =>
        /\ ~ret.val.raise
        /\ \A i \in DOMAIN ret.val.a :
              /\ IsNum(ret.val.a[i])
              /\ ret.val.a[i].v >= -Eps
              /\ ret.val.a[i].v <= At(call.S, i) + Eps

====
